---- MODULE Spec2Model ----
(***************************************************************************)
(* Model of snowpack's default optimize plugin                             *)
(* (src/snowpack/src/plugins/plugin-optimize.ts).                          *)
(*                                                                         *)
(* Text is a sequence of lexemes (strings): a path is spelled             *)
(* <<"/", "build", "/", "main", ".js">>, a script is spelled               *)
(* <<"import '", ".", "/", "util", ".js", "'", ";", "\n">>.  Every string  *)
(* operation of the plugin (path.resolve, path.dirname, substring, join,   *)
(* sort with localeCompare, ...) is computed on these sequences.           *)
(***************************************************************************)
EXTENDS Integers, Sequences, FiniteSets, TLC

(***************************************************************************)
(* Bounds of the model.                                                    *)
(***************************************************************************)
\* Largest number of entries (files and directories) under the build
\* directory before the pass.
MaxFiles == 3
\* Largest number of I/O or service failures the environment injects.
MaxFailures == 1

(***************************************************************************)
(* Generic sequence helpers.                                               *)
(***************************************************************************)
Range(s) == {s[i] : i \in 1..Len(s)}

\* The sequence s without its last element.
Front(s) == SubSeq(s, 1, Len(s) - 1)

\* Position of the first t in s at or after position from; 0 when there is none.
RECURSIVE IndexFrom(_, _, _)
IndexFrom(s, t, from) ==
    IF from > Len(s) THEN 0
    ELSE IF s[from] = t THEN from
    ELSE IndexFrom(s, t, from + 1)

\* All orderings of the finite set S, as sequences without repetition.
Orderings(S) ==
    {s \in [1..Cardinality(S) -> S] : \A i, j \in 1..Cardinality(S) : s[i] = s[j] => i = j}

(***************************************************************************)
(* Node's path module, on lexeme sequences.                                *)
(***************************************************************************)
Sep == "/"

\* The segments of a path: the maximal runs of lexemes between separators.
RECURSIVE Segments(_)
Segments(p) ==
    IF p = <<>> THEN <<>>
    ELSE LET k == IndexFrom(p, Sep, 1) IN
         IF k = 0 THEN <<p>>
         ELSE IF k = 1 THEN Segments(Tail(p))
         ELSE <<SubSeq(p, 1, k - 1)>> \o Segments(SubSeq(p, k + 1, Len(p)))

IsAbsolute(p) == p # <<>> /\ p[1] = Sep

\* Segments with "." dropped and ".." cancelling the segment before it; a
\* ".." that has nothing to cancel is dropped under the root (abs) and kept
\* in a relative path.
RECURSIVE NormalizeSegments(_, _, _)
NormalizeSegments(segs, acc, abs) ==
    IF segs = <<>> THEN acc
    ELSE LET h == Head(segs) IN
         IF h = <<".">> THEN NormalizeSegments(Tail(segs), acc, abs)
         ELSE IF h = <<"..">> THEN
             IF acc # <<>> /\ acc[Len(acc)] # <<"..">>
             THEN NormalizeSegments(Tail(segs), Front(acc), abs)
             ELSE IF abs THEN NormalizeSegments(Tail(segs), acc, abs)
             ELSE NormalizeSegments(Tail(segs), Append(acc, h), abs)
         ELSE NormalizeSegments(Tail(segs), Append(acc, h), abs)

\* segs joined by separators, without a leading separator.
RECURSIVE JoinSegments(_)
JoinSegments(segs) ==
    IF segs = <<>> THEN <<>>
    ELSE IF Len(segs) = 1 THEN Head(segs)
    ELSE Head(segs) \o <<Sep>> \o JoinSegments(Tail(segs))

AbsolutePath(segs) == <<Sep>> \o JoinSegments(segs)

\* path.resolve(from, to), for an absolute from.
PathResolve(from, to) ==
    IF IsAbsolute(to)
    THEN AbsolutePath(NormalizeSegments(Segments(to), <<>>, TRUE))
    ELSE AbsolutePath(NormalizeSegments(Segments(from) \o Segments(to), <<>>, TRUE))

\* path.join(a, b): the two joined by a separator, normalized.
PathJoin(a, b) ==
    LET segs == NormalizeSegments(Segments(a) \o Segments(b), <<>>, IsAbsolute(a)) IN
    IF IsAbsolute(a) THEN AbsolutePath(segs)
    ELSE IF segs = <<>> THEN <<".">> ELSE JoinSegments(segs)

\* path.dirname(p), for an absolute p.
PathDirname(p) ==
    LET segs == Segments(p) IN
    IF segs = <<>> THEN <<Sep>> ELSE AbsolutePath(Front(segs))

\* Length of the longest common prefix of two segment sequences.
RECURSIVE CommonPrefix(_, _)
CommonPrefix(a, b) ==
    IF a = <<>> \/ b = <<>> THEN 0
    ELSE IF Head(a) = Head(b) THEN 1 + CommonPrefix(Tail(a), Tail(b))
    ELSE 0

\* path.relative(from, to), for absolute paths.
PathRelative(from, to) ==
    LET f == NormalizeSegments(Segments(from), <<>>, TRUE)
        t == NormalizeSegments(Segments(to), <<>>, TRUE)
        c == CommonPrefix(f, t)
        ups == [i \in 1..(Len(f) - c) |-> <<"..">>]
    IN  JoinSegments(ups \o SubSeq(t, c + 1, Len(t)))

(***************************************************************************)
(* Helpers imported from ../util (line 7).                                 *)
(***************************************************************************)
\* The lexemes that spell a file extension.
ExtLexemes == {".js", ".mjs", ".html", ".css", ".png"}

\* getExt(file).baseExt: the extension of the file name, "" when it has none.
GetExt(file) ==
    IF file # <<>> /\ file[Len(file)] \in ExtLexemes THEN file[Len(file)] ELSE ""

\* relativeURL(from, to): path.relative, spelled as a relative URL.
RelativeURL(from, to) ==
    LET url == PathRelative(from, to) IN
    IF url # <<>> /\ url[1] \in {".", ".."} THEN url ELSE <<".", Sep>> \o url

\* appendHTMLToHead(doc, html): html inserted before the head's closing tag.
AppendHTMLToHead(doc, html) ==
    LET k == IndexFrom(doc, "</head>", 1) IN
    IF k = 0 THEN doc
    ELSE SubSeq(doc, 1, k - 1) \o html \o SubSeq(doc, k, Len(doc))

(***************************************************************************)
(* es-module-lexer: parse(code)[0], the import spans of a script.  s and e *)
(* are the 0-based offsets of the specifier, d is -1 for a static import   *)
(* and the offset of the import expression for a dynamic one.  A script    *)
(* whose import is not closed does not parse.                              *)
(***************************************************************************)
StaticOpen == "import '"
StaticClose == "'"
DynamicOpen == "import("
DynamicClose == ")"

RECURSIVE ParseFrom(_, _)
ParseFrom(code, pos) ==
    IF pos > Len(code) THEN [ok |-> TRUE, imports |-> <<>>]
    ELSE IF code[pos] \in {StaticOpen, DynamicOpen} THEN
        LET static == code[pos] = StaticOpen
            q == IndexFrom(code, IF static THEN StaticClose ELSE DynamicClose, pos + 1)
        IN  IF q = 0 THEN [ok |-> FALSE, imports |-> <<>>]
            ELSE LET rest == ParseFrom(code, q + 1)
                     span == [s |-> pos, e |-> q - 1, d |-> IF static THEN -1 ELSE pos - 1]
                 IN  [ok |-> rest.ok, imports |-> <<span>> \o rest.imports]
    ELSE ParseFrom(code, pos + 1)

Parse(code) == ParseFrom(code, 1)

\* code.substring(s, e), with 0-based offsets.
Substring(code, s, e) == SubSeq(code, s + 1, e)

(***************************************************************************)
(* esbuild: the result of transform(code, {minify: true}).js when the      *)
(* service answers: the code without its white space.                      *)
(***************************************************************************)
WhiteSpace == {"\n", " "}

IsBlack(t) == t \notin WhiteSpace

Minify(code) == SelectSeq(code, IsBlack)

(***************************************************************************)
(* JavaScript built-ins: Set, Array.prototype.sort, String.localeCompare.  *)
(***************************************************************************)
\* Set.prototype.add taken for Array.prototype.push: the value is added again.
SetAddAlways(set, x) == Append(set, x)

\* Set.prototype.add: a Set keeps insertion order and holds a value once.
SetAdd(set, x) == IF x \in Range(set) THEN set ELSE Append(set, x)

\* Two spellings of one name that Unicode holds canonically equivalent: the
\* last letter as one code point (U+00E9), and as e followed by the
\* combining acute accent (U+0301).  They are different strings and
\* different file names.
Precomposed == "caf\\u00E9"
Decomposed == "cafe\\u0301"

\* The collation compares canonically equivalent strings as equal.
CollationKey(t) == IF t = Decomposed THEN Precomposed ELSE t

\* Collation order of the lexemes that occur in module paths: punctuation
\* before letters, letters compared without regard to case first (no two
\* lexemes here differ in case only).
CollationOrder ==
    <<".", "..", ".js", ".mjs", Sep, "app", "build", Precomposed, "lazy", "main", "old",
      "pkg", "__snowpack__", "sub", "util", "Vendor", "x">>

CollationRank(t) == IndexFrom(CollationOrder, CollationKey(t), 1)

\* a.localeCompare(b): negative, zero or positive.
RECURSIVE LocaleCompare(_, _)
LocaleCompare(a, b) ==
    IF a = <<>> /\ b = <<>> THEN 0
    ELSE IF a = <<>> THEN -1
    ELSE IF b = <<>> THEN 1
    ELSE IF CollationRank(Head(a)) < CollationRank(Head(b)) THEN -1
    ELSE IF CollationRank(Head(a)) > CollationRank(Head(b)) THEN 1
    ELSE LocaleCompare(Tail(a), Tail(b))

\* x inserted into the sorted sequence s, after the elements not above it.
RECURSIVE InsertSorted(_, _)
InsertSorted(s, x) ==
    IF s = <<>> THEN <<x>>
    ELSE IF LocaleCompare(x, Head(s)) < 0 THEN <<x>> \o s
    ELSE <<Head(s)>> \o InsertSorted(Tail(s), x)

\* sortedModules.sort((a, b) => a.localeCompare(b)): a stable sort.
RECURSIVE SortModules(_)
SortModules(s) ==
    IF s = <<>> THEN <<>>
    ELSE InsertSorted(SortModules(Front(s)), s[Len(s)])

\* Array.prototype.join: the elements with sep between them.
RECURSIVE JoinWith(_, _)
JoinWith(ss, sep) ==
    IF ss = <<>> THEN <<>>
    ELSE IF Len(ss) = 1 THEN Head(ss)
    ELSE Head(ss) \o sep \o JoinWith(Tail(ss), sep)

(***************************************************************************)
(* Errors.  An error is its message; err.toString() puts "Error: " before  *)
(* it.                                                                     *)
(***************************************************************************)
NoError == [message |-> <<>>]

\* What fs.readFileSync throws when the file cannot be opened.
ReadError(file) ==
    [message |-> <<"ENOENT: no such file or directory, open '">> \o file \o <<"'">>]

\* What fs.writeFileSync throws when the file cannot be written.
WriteError(file) ==
    [message |-> <<"EACCES: permission denied, open '">> \o file \o <<"'">>]

\* What parse throws on a script it cannot parse.
ParseError == [message |-> <<"Parse error">>]

\* What esbuildService.transform rejects with.
TransformError == [message |-> <<"Transform failed with 1 error">>]

ErrorToString(err) == <<"Error: ">> \o err.message

JSContext == "Trouble optimizing JS: "

\* The wrapper without the path of the file.
WrapJSErrorWithoutFile(file, err) ==
    [message |-> <<JSContext>> \o <<"\n">> \o ErrorToString(err)]

\* new Error(`Trouble optimizing JS: ${file}\n${err.toString()}`)
WrapJSError(file, err) ==
    [message |-> <<JSContext>> \o file \o <<"\n">> \o ErrorToString(err)]

(***************************************************************************)
(* The build directory before the pass: the files it may hold.             *)
(***************************************************************************)
\* buildDirectory, the argument of optimize().
BuildDirectory == <<Sep, "build">>

\* config.buildOptions.metaDir
MetaDir == <<"__snowpack__">>

HtmlDoc == <<"<html>", "<head>", "<title>", "</head>", "<body>", "</body>", "</html>">>

\* import './util.js'; import './Vendor.js'; import './cafe\u0301.js';
\* import('./lazy.js');
MainJs ==
    <<StaticOpen, ".", Sep, "util", ".js", StaticClose, ";", "\n",
      StaticOpen, ".", Sep, "Vendor", ".js", StaticClose, ";", "\n",
      StaticOpen, ".", Sep, Decomposed, ".js", StaticClose, ";", "\n",
      DynamicOpen, "'", ".", Sep, "lazy", ".js", "'", DynamicClose, ";", "\n">>

\* import '../util.js'; import 'app';
SubAJs ==
    <<StaticOpen, "..", Sep, "util", ".js", StaticClose, ";", "\n",
      StaticOpen, "app", StaticClose, ";", "\n">>

\* import './caf\u00E9.js'; import('./Vendor.js'); import('./old.js');
LazyJs ==
    <<StaticOpen, ".", Sep, Precomposed, ".js", StaticClose, ";", "\n",
      DynamicOpen, "'", ".", Sep, "Vendor", ".js", "'", DynamicClose, ";", "\n",
      DynamicOpen, "'", ".", Sep, "old", ".js", "'", DynamicClose, ";", "\n">>

\* A script without imports.
UtilJs == <<"export", " ", "{}", ";", "\n">>

\* A script whose import is not closed.
BadJs == <<StaticOpen, ".", Sep, "util", ".js", "\n">>

\* The aggregator file a previous pass left behind.
StalePreload == <<StaticOpen, "..", Sep, "old", ".js", StaticClose, ";">>

\* A script the build left in a directory of the metadata directory:
\* import './old.js';
PkgXJs == <<StaticOpen, ".", Sep, "old", ".js", StaticClose, ";", "\n">>

\* Every file the build directory may hold, by its path under the directory.
Universe ==
    { [file |-> <<"index", ".html">>, code |-> HtmlDoc],
      [file |-> <<"main", ".js">>, code |-> MainJs],
      [file |-> <<"sub", Sep, "a", ".mjs">>, code |-> SubAJs],
      [file |-> <<"lazy", ".js">>, code |-> LazyJs],
      [file |-> <<"util", ".js">>, code |-> UtilJs],
      [file |-> <<"bad", ".js">>, code |-> BadJs],
      [file |-> <<"style", ".css">>, code |-> <<"body", "{}", "\n">>],
      [file |-> <<"logo", ".png">>, code |-> <<"PNG">>],
      [file |-> MetaDir \o <<Sep, "module-preload", ".mjs">>, code |-> StalePreload],
      [file |-> MetaDir \o <<Sep, "pkg", Sep, "x", ".js">>, code |-> PkgXJs] }

\* The directories that hold the path p, the root left out.
RECURSIVE Ancestors(_)
Ancestors(p) ==
    LET dir == PathDirname(p) IN
    IF Segments(dir) = <<>> THEN {} ELSE {dir} \cup Ancestors(dir)

\* The directories of the file system d: a directory is there when a file
\* is in it.
Directories(d) == UNION {Ancestors(p) : p \in DOMAIN d}

\* The entries of d under the directory cwd: files and directories.
EntriesUnder(d, cwd) ==
    {p \in DOMAIN d \cup Directories(d) : cwd \in Ancestors(p)}

\* The file system that holds the files S of the universe.
DiskOf(S) ==
    [p \in {PathJoin(BuildDirectory, u.file) : u \in S} |->
        (CHOOSE u \in S : PathJoin(BuildDirectory, u.file) = p).code]

\* The file systems the pass may start from: at most MaxFiles entries under
\* the build directory.
Disks ==
    { DiskOf(S) : S \in {T \in SUBSET Universe :
                            Cardinality(EntriesUnder(DiskOf(T), BuildDirectory)) <= MaxFiles} }

(***************************************************************************)
(* The exclude option: undefined, a string or an array of strings.         *)
(***************************************************************************)
\* The pattern *.css
CssPattern == <<"*", ".css">>

Excludes ==
    { [type |-> "undefined", value |-> <<>>],
      [type |-> "string", value |-> CssPattern],
      [type |-> "array", value |-> <<CssPattern>>] }

\* ...((options && options.exclude) || []): the elements of an array, the
\* characters of a string, nothing for undefined and for the empty string.
ExcludeSpread(opts) ==
    IF opts.exclude.type = "string"
    THEN [i \in 1..Len(opts.exclude.value) |-> <<opts.exclude.value[i]>>]
    ELSE opts.exclude.value

(***************************************************************************)
(* glob.sync('**/*', {cwd, ignore}): the files and the directories under   *)
(* cwd, by their path relative to cwd, without those an ignore pattern     *)
(* matches.                                                                *)
(***************************************************************************)
\* A segment of a pattern matches a segment of a path: "*" stands for any
\* run of lexemes, every other lexeme for itself.
RECURSIVE SegmentMatch(_, _)
SegmentMatch(ps, fs) ==
    IF ps = <<>> THEN fs = <<>>
    ELSE IF Head(ps) = "*"
         THEN \E k \in 0..Len(fs) : SegmentMatch(Tail(ps), SubSeq(fs, k + 1, Len(fs)))
    ELSE fs # <<>> /\ Head(ps) = Head(fs) /\ SegmentMatch(Tail(ps), Tail(fs))

\* A pattern matches a path when they have as many segments and every
\* segment of the pattern matches the path's segment.
GlobMatch(pattern, file) ==
    LET ps == Segments(pattern)
        fs == Segments(file)
    IN  /\ Len(ps) = Len(fs)
        /\ \A i \in 1..Len(ps) : SegmentMatch(ps[i], fs[i])

Glob(d, cwd, ignore) ==
    { PathRelative(cwd, p) : p \in EntriesUnder(d, cwd) } \
    { f \in { PathRelative(cwd, p) : p \in EntriesUnder(d, cwd) } :
        \E i \in 1..Len(ignore) : GlobMatch(ignore[i], f) }

(***************************************************************************)
(* The state of one pass of optimize().                                    *)
(***************************************************************************)
VARIABLES
    pc,               \* where optimize() stands
    options,          \* the plugin's options
    disk,             \* the file system: absolute path -> content
    original,         \* the file system as it was before the pass
    esbuildService,   \* the minifier service: running, times started, times stopped
    allFiles,         \* the result of the scan, in the order glob gave it
    dispatched,       \* how many files of allFiles optimizeFile was called for
    tasks,            \* absolute path -> the optimizeFile call for it
    modulesToPreload, \* the Set of module paths, in insertion order
    sortedModules,    \* the emitter's sorted copy of the Set
    rejected,         \* the files whose call rejected, in the order they did
    passError,        \* what optimize() rejected with
    failures,         \* the steps that failed: [file, step]
    log,              \* the events of the pass, in order
    writes            \* the writes made to the file system: [by, to], in order

vars ==
    <<pc, options, disk, original, esbuildService, allFiles, dispatched, tasks,
      modulesToPreload, sortedModules, rejected, passError, failures, log, writes>>

\* The content of file p becomes c; the file is created when it is absent.
DiskWrite(d, p, c) == [q \in DOMAIN d \cup {p} |-> IF q = p THEN c ELSE d[q]]

Event(ev, file) == [ev |-> ev, file |-> file]

\* The steps the environment may make fail: every step but the parse, which
\* the content of the script decides.
Injected == {x \in failures : x.step # "parse"}

MayFail == Cardinality(Injected) < MaxFailures

\* path.join(buildDirectory, config.buildOptions.metaDir, 'module-preload.mjs')
PreloadModuleFile ==
    PathJoin(PathJoin(BuildDirectory, MetaDir), <<"module-preload", ".mjs">>)

\* The ignore option of the scan, line 103.
IgnorePatterns == <<MetaDir \o <<Sep, "*">>>> \o ExcludeSpread(options)

\* The file optimizeFile is called for next.
NextFile == PathJoin(BuildDirectory, allFiles[dispatched + 1])

Idle == [state |-> "idle", code |-> <<>>, error |-> NoError]

Init ==
    /\ pc = "start"
    /\ options \in [minifyJS : BOOLEAN, exclude : Excludes]
    /\ disk \in Disks
    /\ original = disk
    /\ esbuildService = [running |-> FALSE, starts |-> 0, stops |-> 0]
    /\ allFiles = <<>>
    /\ dispatched = 0
    /\ tasks = <<>>
    /\ modulesToPreload = <<>>
    /\ sortedModules = <<>>
    /\ rejected = <<>>
    /\ passError = NoError
    /\ failures = {}
    /\ log = <<>>
    /\ writes = <<>>

(***************************************************************************)
(* esbuild's service handle.                                               *)
(***************************************************************************)
\* esbuild.startService()
ServiceStart(svc) == [svc EXCEPT !.running = TRUE, !.starts = @ + 1]

\* A stop that is never made.
ServiceStopSkipped(svc) == svc

\* esbuildService.stop()
ServiceStop(svc) == [svc EXCEPT !.running = FALSE, !.stops = @ + 1]

(***************************************************************************)
(* optimize(), lines 97-98: the service is started, the lexer is ready.    *)
(***************************************************************************)
StartService ==
    /\ pc = "start"
    /\ esbuildService' = ServiceStart(esbuildService)
    /\ log' = Append(log, Event("start", <<>>))
    /\ pc' = "scan"
    /\ UNCHANGED <<options, disk, original, allFiles, dispatched, tasks,
                   modulesToPreload, sortedModules, rejected, passError, failures,
                   writes>>

(***************************************************************************)
(* optimize(), lines 101-112: the scan, the empty Set.                     *)
(***************************************************************************)
Scan ==
    /\ pc = "scan"
    /\ allFiles' \in Orderings(Glob(disk, BuildDirectory, IgnorePatterns))
    /\ tasks' = [f \in {PathJoin(BuildDirectory, allFiles'[i]) : i \in 1..Len(allFiles')}
                   |-> Idle]
    /\ modulesToPreload' = <<>>
    /\ pc' = "dispatch"
    /\ UNCHANGED <<options, disk, original, esbuildService, dispatched, sortedModules,
                   rejected, passError, failures, log,
                   writes>>

(***************************************************************************)
(* optimizeFile(), up to its first await.                                  *)
(***************************************************************************)
\* The switch of line 34 with the break of line 37 left out: a .css file
\* falls through to the case of the scripts.
CategoryFallThrough(ext) ==
    IF ext \in {".css", ".js", ".mjs"} THEN "script"
    ELSE IF ext = ".html" THEN "markup"
    ELSE "other"

\* The switch of line 34: the case a base extension selects.
Category(ext) ==
    IF ext = ".css" THEN "stylesheet"
    ELSE IF ext \in {".js", ".mjs"} THEN "script"
    ELSE IF ext = ".html" THEN "markup"
    ELSE "other"

\* The test of line 53 left out: every script is minified.
MinifyAlways(opts) == TRUE

\* if (options.minifyJS)
MinifyEnabled(opts) == opts.minifyJS

\* Line 55 left out: the code that was read is written back.
CodeToWriteUnminified(code, minified) == code

\* code = minified.js; the code line 56 writes.
CodeToWrite(code, minified) == minified

\* The aggregator's path taken for the file's.
WriteTargetPreload(file, preloadModuleFile) == preloadModuleFile

\* The first argument of fs.writeFileSync at lines 56 and 73.
WriteTarget(file, preloadModuleFile) == file

\* The writer of the aggregator file, as it stands in the writes.
Emitter == <<"writeModulePreloadFile">>

IsStatic(imp) == imp.d = -1

\* The filter left out: dynamic imports are kept.
EveryImport(imports) == imports

\* imports.filter(({d}) => d === -1)
StaticImports(imports) == SelectSeq(imports, IsStatic)

\* The forEach of lines 48-50: every import's resolved path added to the Set.
RECURSIVE AddImports(_, _, _, _)
AddImports(set, imports, file, code) ==
    IF imports = <<>> THEN set
    ELSE AddImports(
             SetAdd(set, PathResolve(PathDirname(file),
                                     Substring(code, Head(imports).s, Head(imports).e))),
             Tail(imports), file, code)

\* The call for file rejects with err.
Reject(file, step, err) ==
    /\ tasks' = [tasks EXCEPT ![file] = [state |-> "rejected", code |-> @.code, error |-> err]]
    /\ rejected' = Append(rejected, file)
    /\ failures' = failures \cup {[file |-> file, step |-> step]}

\* Lines 39-62, for a .js or .mjs file: read, parse, add; the call then
\* awaits the minifier (minifyJS) or is done.
DispatchScript ==
    /\ pc = "dispatch"
    /\ dispatched < Len(allFiles)
    /\ Category(GetExt(NextFile)) = "script"
    /\ LET file == NextFile
           code == disk[file]
           parsed == Parse(code)
       IN  \/ /\ MayFail
              /\ Reject(file, "read", WrapJSError(file, ReadError(file)))
              /\ UNCHANGED modulesToPreload
           \/ /\ ~parsed.ok
              /\ Reject(file, "parse", WrapJSError(file, ParseError))
              /\ UNCHANGED modulesToPreload
           \/ /\ parsed.ok
              /\ modulesToPreload' =
                     AddImports(modulesToPreload, StaticImports(parsed.imports), file, code)
              /\ tasks' = [tasks EXCEPT ![file] =
                              [state |-> IF MinifyEnabled(options) THEN "minifying"
                                          ELSE "fulfilled",
                               code |-> code, error |-> NoError]]
              /\ UNCHANGED <<rejected, failures>>
    /\ dispatched' = dispatched + 1
    /\ log' = Append(log, Event("dispatch", NextFile))
    /\ UNCHANGED <<pc, options, disk, original, esbuildService, allFiles, sortedModules,
                   passError,
                   writes>>

\* The hint with the path of the file where its directory belongs.
PreloadScriptFromFile(file, preloadModuleFile) ==
    <<"<link rel=\"modulepreload\" href=\"">>
        \o RelativeURL(file, preloadModuleFile) \o <<"\" />">>

\* `<link rel="modulepreload" href="${relativeURL(path.dirname(file), preloadModuleFile)}" />`
PreloadScript(file, preloadModuleFile) ==
    <<"<link rel=\"modulepreload\" href=\"">>
        \o RelativeURL(PathDirname(file), preloadModuleFile) \o <<"\" />">>

\* Lines 63-75, for a .html file: read, add the hint to the head, write.
DispatchMarkup ==
    /\ pc = "dispatch"
    /\ dispatched < Len(allFiles)
    /\ Category(GetExt(NextFile)) = "markup"
    /\ LET file == NextFile
           code == AppendHTMLToHead(disk[file], PreloadScript(file, PreloadModuleFile))
       IN  \/ /\ MayFail
              /\ Reject(file, "read", ReadError(file))
              /\ UNCHANGED <<disk, writes>>
           \/ /\ MayFail
              /\ Reject(file, "write", WriteError(file))
              /\ UNCHANGED <<disk, writes>>
           \/ /\ disk' = DiskWrite(disk, WriteTarget(file, PreloadModuleFile), code)
              /\ writes' = Append(writes, [by |-> file,
                                           to |-> WriteTarget(file, PreloadModuleFile)])
              /\ tasks' = [tasks EXCEPT ![file] =
                              [state |-> "fulfilled", code |-> code, error |-> NoError]]
              /\ UNCHANGED <<rejected, failures>>
    /\ dispatched' = dispatched + 1
    /\ log' = Append(log, Event("dispatch", NextFile))
    /\ UNCHANGED <<pc, options, original, esbuildService, allFiles, modulesToPreload,
                   sortedModules, passError>>

\* Lines 35-38 and 76: a .css file and a file of any other extension.
DispatchOther ==
    /\ pc = "dispatch"
    /\ dispatched < Len(allFiles)
    /\ Category(GetExt(NextFile)) \in {"stylesheet", "other"}
    /\ tasks' = [tasks EXCEPT ![NextFile].state = "fulfilled"]
    /\ dispatched' = dispatched + 1
    /\ log' = Append(log, Event("dispatch", NextFile))
    /\ UNCHANGED <<pc, options, disk, original, esbuildService, allFiles, modulesToPreload,
                   sortedModules, rejected, passError, failures,
                   writes>>

(***************************************************************************)
(* optimizeFile(), lines 54-57: the minifier answers, the file is written. *)
(* The answer is an event of its own; it comes while optimize() awaits     *)
(* Promise.all, or after optimize() has rejected.                          *)
(***************************************************************************)
MinifyDone(file) ==
    /\ \/ pc = "await" /\ rejected = <<>>
       \/ pc = "failed"
    /\ tasks[file].state = "minifying"
    /\ esbuildService.running
    /\ \/ /\ MayFail
          /\ Reject(file, "minify", WrapJSError(file, TransformError))
          /\ UNCHANGED <<disk, writes>>
       \/ /\ MayFail
          /\ Reject(file, "write", WrapJSError(file, WriteError(file)))
          /\ UNCHANGED <<disk, writes>>
       \/ /\ disk' = DiskWrite(disk, WriteTarget(file, PreloadModuleFile),
                               CodeToWrite(tasks[file].code, Minify(tasks[file].code)))
          /\ writes' = Append(writes, [by |-> file,
                                       to |-> WriteTarget(file, PreloadModuleFile)])
          /\ tasks' = [tasks EXCEPT ![file] =
                          [state |-> "fulfilled", code |-> CodeToWrite(@.code, Minify(@.code)),
                           error |-> NoError]]
          /\ UNCHANGED <<rejected, failures>>
    /\ log' = Append(log, Event("settle", file))
    /\ UNCHANGED <<pc, options, original, esbuildService, allFiles, dispatched,
                   modulesToPreload, sortedModules, passError>>

(***************************************************************************)
(* optimize(), lines 113-122: Promise.all over the calls.                  *)
(***************************************************************************)
\* Promise.all taken for Promise.race: one fulfilled promise is enough.
AnyFulfilled(ts) == \E f \in DOMAIN ts : ts[f].state = "fulfilled"

\* Promise.all taken for Promise.allSettled: a rejected promise counts too.
AllSettled(ts) == \A f \in DOMAIN ts : ts[f].state \in {"fulfilled", "rejected"}

\* Promise.all fulfils when every promise has.
AllFulfilled(ts) == \A f \in DOMAIN ts : ts[f].state = "fulfilled"

\* Promise.all rejects as soon as one promise has.
AnyRejected(rej) == rej # <<>>

\* The map is over: every call was made, optimize() awaits Promise.all.
AwaitAll ==
    /\ pc = "dispatch"
    /\ dispatched = Len(allFiles)
    /\ pc' = "await"
    /\ UNCHANGED <<options, disk, original, esbuildService, allFiles, dispatched, tasks,
                   modulesToPreload, sortedModules, rejected, passError, failures, log,
                   writes>>

\* Promise.all rejects with the first rejection; optimize() rejects with it.
PassRejects ==
    /\ pc = "await"
    /\ AnyRejected(rejected)
    /\ passError' = tasks[rejected[1]].error
    /\ pc' = "failed"
    /\ log' = Append(log, Event("throw", <<>>))
    /\ UNCHANGED <<options, disk, original, esbuildService, allFiles, dispatched, tasks,
                   modulesToPreload, sortedModules, rejected, failures,
                   writes>>

\* Promise.all fulfils; optimize() goes on to line 125.
PassProceeds ==
    /\ pc = "await"
    /\ AllFulfilled(tasks)
    /\ pc' = "emit"
    /\ UNCHANGED <<options, disk, original, esbuildService, allFiles, dispatched, tasks,
                   modulesToPreload, sortedModules, rejected, passError, failures, log,
                   writes>>

(***************************************************************************)
(* writeModulePreloadFile(), lines 79-92.                                  *)
(***************************************************************************)
\* `import '${urls.join("';\nimport '")}';`
PreloadCode(dest, sorted) ==
    <<StaticOpen>>
        \o JoinWith([i \in 1..Len(sorted) |-> RelativeURL(PathDirname(dest), sorted[i])],
                    <<StaticClose, ";", "\n", StaticOpen>>)
        \o <<StaticClose, ";">>

WriteModulePreloadFile ==
    /\ pc = "emit"
    /\ sortedModules' = SortModules(modulesToPreload)
    /\ \/ /\ MayFail
          /\ failures' = failures \cup {[file |-> PreloadModuleFile, step |-> "emit"]}
          /\ passError' = WriteError(PreloadModuleFile)
          /\ pc' = "failed"
          /\ log' = Append(log, Event("throw", <<>>))
          /\ UNCHANGED <<disk, writes>>
       \/ /\ disk' = DiskWrite(disk, PreloadModuleFile,
                               PreloadCode(PreloadModuleFile, sortedModules'))
          /\ writes' = Append(writes, [by |-> Emitter, to |-> PreloadModuleFile])
          /\ pc' = "stop"
          /\ log' = Append(log, Event("emit", PreloadModuleFile))
          /\ UNCHANGED <<passError, failures>>
    /\ UNCHANGED <<options, original, esbuildService, allFiles, dispatched, tasks,
                   modulesToPreload, rejected>>

(***************************************************************************)
(* optimize(), line 128: the service is stopped, optimize() returns.       *)
(***************************************************************************)
StopService ==
    /\ pc = "stop"
    /\ esbuildService' = ServiceStop(esbuildService)
    /\ log' = Append(log, Event("stop", <<>>))
    /\ pc' = "done"
    /\ UNCHANGED <<options, disk, original, allFiles, dispatched, tasks, modulesToPreload,
                   sortedModules, rejected, passError, failures,
                   writes>>

Next ==
    \/ StartService
    \/ Scan
    \/ DispatchScript
    \/ DispatchMarkup
    \/ DispatchOther
    \/ AwaitAll
    \/ \E file \in DOMAIN tasks : MinifyDone(file)
    \/ PassRejects
    \/ PassProceeds
    \/ WriteModulePreloadFile
    \/ StopService

Spec == Init /\ [][Next]_vars

(***************************************************************************)
(* Vocabulary of the properties.                                           *)
(***************************************************************************)
\* The positions of the log that hold an event of kind ev.
Positions(ev) == {i \in 1..Len(log) : log[i].ev = ev}

IsScript(file) == GetExt(file) \in {".js", ".mjs"}

\* The calls of optimizeFile that have not settled.
Pending == {f \in DOMAIN tasks : tasks[f].state \in {"idle", "minifying"}}

\* optimize() has returned or rejected.
PassEnded == pc \in {"done", "failed"}

\* A transform failed and optimize() has rejected.
TransformFailureReported == pc = "failed" /\ rejected # <<>>

\* writeModulePreloadFile has been entered.
EmitterBegun ==
    \/ pc \in {"emit", "stop", "done"}
    \/ \E x \in failures : x.step = "emit"

\* writeModulePreloadFile has written the aggregator file.
Emitted == pc \in {"stop", "done"}

\* The absolute paths the static imports of the script at file resolve to,
\* read off the content the file had before the pass.
StaticTargets(file) ==
    LET code == original[file] IN
    { PathResolve(PathDirname(file), Substring(code, imp.s, imp.e)) :
        imp \in {i \in Range(Parse(code).imports) : i.d = -1} }

\* How many times x occurs in the sequence s.
Occurrences(s, x) == Cardinality({i \in 1..Len(s) : s[i] = x})

\* The message of err holds the path file.
Mentions(err, file) ==
    \E i \in 1..Len(err.message) :
        /\ i + Len(file) - 1 <= Len(err.message)
        /\ SubSeq(err.message, i, i + Len(file) - 1) = file

\* err is some context, then the path file, then the cause and nothing else.
IsWrapped(err, file) ==
    \E cause \in {ReadError(file), WriteError(file), ParseError, TransformError} :
        /\ Len(err.message) = 2 + Len(file) + Len(ErrorToString(cause))
        /\ SubSeq(err.message, 2, 1 + Len(file)) = file
        /\ SubSeq(err.message, 3 + Len(file), Len(err.message)) = ErrorToString(cause)

(***************************************************************************)
(* C1.  When a file's transform fails, the minifier service is stopped by  *)
(* the time optimize() reports the failure to its caller.                  *)
(***************************************************************************)
ServiceStoppedOnFailure ==
    TransformFailureReported => ~esbuildService.running

(***************************************************************************)
(* C2.  optimize() never returns or rejects while a dispatched transform   *)
(* is still pending, so no file is rewritten after the pass has ended.     *)
(***************************************************************************)
PassWaitsForEveryTransform ==
    PassEnded => Pending = {}

(***************************************************************************)
(* C3.  The emitter does not begin before every dispatched transform has   *)
(* completed, and no path is added to the Set once it has begun.           *)
(***************************************************************************)
EmitterReadsSettledSet ==
    /\ [](EmitterBegun => Pending = {})
    /\ [][EmitterBegun => modulesToPreload' = modulesToPreload]_vars

\* Two scripts were minified, each after the other's imports were added, and
\* the emitter begins with their paths in the Set.
EmitterReadsSettledSetWitness ==
    /\ pc = "emit"
    /\ options.minifyJS
    /\ Cardinality({f \in DOMAIN tasks : IsScript(f)}) >= 2
    /\ Len(modulesToPreload) >= 2

(***************************************************************************)
(* C4.  When the Set is empty at emission the pass completes without error *)
(* and the aggregator file holds no import statement.                      *)
(***************************************************************************)
EmptySetWritesNoImport ==
    (Emitted /\ modulesToPreload = <<>>) =>
        /\ passError = NoError
        /\ Parse(disk[PreloadModuleFile]).imports = <<>>

(***************************************************************************)
(* C5.  In a successful pass the service is started once, before any       *)
(* transform is dispatched, and stopped once, after every transform has    *)
(* completed and the aggregator file is written; a transform uses the      *)
(* service only while it runs.                                             *)
(***************************************************************************)
ServiceStartedAndStoppedOnce ==
    /\ \A f \in DOMAIN tasks : tasks[f].state = "minifying" => esbuildService.running
    /\ pc = "done" =>
        /\ esbuildService.starts = 1
        /\ esbuildService.stops = 1
        /\ ~esbuildService.running
        /\ Cardinality(Positions("start")) = 1
        /\ Cardinality(Positions("stop")) = 1
        /\ Cardinality(Positions("emit")) = 1
        /\ Cardinality(Positions("dispatch")) = Len(allFiles)
        /\ Pending = {}
        /\ \A i \in Positions("start") : \A j \in Positions("dispatch") : i < j
        /\ \A i \in Positions("stop") :
               \A j \in Positions("dispatch") \cup Positions("settle") \cup Positions("emit") :
                   j < i

\* A pass that minified two scripts has returned.
ServiceStartedAndStoppedOnceWitness ==
    /\ pc = "done"
    /\ Cardinality(Positions("settle")) >= 2

(***************************************************************************)
(* C6.  At emission the Set holds the resolved path of every static import *)
(* of every scanned script exactly once, however many files import it.     *)
(***************************************************************************)
EachStaticImportOnce ==
    Emitted =>
        \A f \in {g \in DOMAIN tasks : IsScript(g)} :
            \A m \in StaticTargets(f) :
                /\ Occurrences(modulesToPreload, m) = 1
                /\ Occurrences(sortedModules, m) = 1

\* Two scanned scripts import the same path and the aggregator is written.
EachStaticImportOnceWitness ==
    /\ Emitted
    /\ \E f, g \in {h \in DOMAIN tasks : IsScript(h)} :
           f # g /\ StaticTargets(f) \cap StaticTargets(g) # {}

(***************************************************************************)
(* C7.  The Set holds only paths that static imports of scanned scripts    *)
(* resolve to: a script with dynamic imports only adds nothing, and the    *)
(* target of a dynamic import is in the Set only when some script imports  *)
(* it statically.                                                          *)
(***************************************************************************)
OnlyStaticImportsPreloaded ==
    /\ Range(modulesToPreload) \subseteq
           UNION {StaticTargets(f) : f \in {g \in DOMAIN tasks : IsScript(g)}}
    /\ Range(sortedModules) \subseteq Range(modulesToPreload)

\* lazy.js (dynamic imports only) and main.js were scanned: the Set holds
\* Vendor.js, which lazy.js imports dynamically and main.js statically, and
\* not old.js, which only lazy.js imports.
OnlyStaticImportsPreloadedWitness ==
    /\ Emitted
    /\ {PathJoin(BuildDirectory, <<"lazy", ".js">>), PathJoin(BuildDirectory, <<"main", ".js">>)}
           \subseteq DOMAIN tasks
    /\ PathJoin(BuildDirectory, <<"Vendor", ".js">>) \in Range(modulesToPreload)
    /\ PathJoin(BuildDirectory, <<"old", ".js">>) \notin Range(modulesToPreload)

(***************************************************************************)
(* C8.  The import lines of the aggregator file are in non-decreasing      *)
(* lexicographic order of the absolute paths, one line per path of the     *)
(* Set, and the content does not depend on the order of accumulation.      *)
(***************************************************************************)
\* The lexemes of module paths in the order of their UTF-16 code units:
\* "." (46) < "/" (47) < "V" (86) < "_" (95) < "a" (97) < ... < "u" (117),
\* and "e" (101) < U+00E9 (233).
CodeUnitOrder ==
    <<".", "..", ".js", ".mjs", Sep, "Vendor", "__snowpack__", "app", "build",
      Decomposed, Precomposed, "lazy", "main", "old", "pkg", "sub", "util", "x">>

CodeUnitRank(t) == IndexFrom(CodeUnitOrder, t, 1)

\* a <= b in the lexicographic order of the code units.
RECURSIVE CodeUnitLeq(_, _)
CodeUnitLeq(a, b) ==
    IF a = <<>> THEN TRUE
    ELSE IF b = <<>> THEN FALSE
    ELSE IF CodeUnitRank(Head(a)) < CodeUnitRank(Head(b)) THEN TRUE
    ELSE IF CodeUnitRank(Head(a)) > CodeUnitRank(Head(b)) THEN FALSE
    ELSE CodeUnitLeq(Tail(a), Tail(b))

\* The specifiers of the import lines of the aggregator file, in order.
AggregatorLines ==
    LET code == disk[PreloadModuleFile]
        imports == Parse(code).imports
    IN  [i \in 1..Len(imports) |-> Substring(code, imports[i].s, imports[i].e)]

AggregatorSortedOneLinePerPath ==
    Emitted =>
        /\ Len(AggregatorLines) = Len(modulesToPreload)
        /\ Len(sortedModules) = Len(modulesToPreload)
        /\ Range(sortedModules) = Range(modulesToPreload)
        /\ \A i \in 1..Len(AggregatorLines) :
               AggregatorLines[i] = RelativeURL(PathDirname(PreloadModuleFile), sortedModules[i])
        /\ \A i, j \in 1..Len(sortedModules) :
               i < j => CodeUnitLeq(sortedModules[i], sortedModules[j])
        /\ \A s \in Orderings(Range(modulesToPreload)) :
               PreloadCode(PreloadModuleFile, SortModules(s)) = disk[PreloadModuleFile]

(***************************************************************************)
(* C9.  When the transform of a file fails, whatever the step and the kind *)
(* of file (.html included), what the caller of the pass receives is a     *)
(* wrapper that names the path of the file and holds the cause.            *)
(***************************************************************************)
TransformFailureIsWrapped ==
    TransformFailureReported => IsWrapped(passError, rejected[1])

(***************************************************************************)
(* C10.  With minifyJS, when the minifier fails for one script and nothing *)
(* else fails, the pass rejects with an error that holds the path of that  *)
(* script, optimizeFile was called for every scanned file, and every file  *)
(* whose transform completed holds its optimized content.                  *)
(***************************************************************************)
\* What a completed transform leaves in file.
Optimized(file) ==
    IF IsScript(file) THEN Minify(original[file])
    ELSE IF GetExt(file) = ".html"
         THEN AppendHTMLToHead(original[file], PreloadScript(file, PreloadModuleFile))
    ELSE original[file]

\* The minifier failed for file and no other step failed.
OnlyMinifierFailedFor(file) ==
    /\ options.minifyJS
    /\ pc = "failed"
    /\ failures = {[file |-> file, step |-> "minify"]}

MinifierFailureKeepsOtherFiles ==
    \A f \in DOMAIN tasks :
        OnlyMinifierFailedFor(f) =>
            /\ Mentions(passError, f)
            /\ dispatched = Len(allFiles)
            /\ \A g \in DOMAIN tasks : tasks[g].state # "idle"
            /\ \A g \in (DOMAIN tasks \cap DOMAIN original) \ {f} :
                   tasks[g].state = "fulfilled" => disk[g] = Optimized(g)
            /\ disk[f] = original[f]

\* The minifier failed for one script after another script was minified and a
\* page received its hint; both are still on disk when the pass has rejected.
MinifierFailureKeepsOtherFilesWitness ==
    \E f, g, h \in DOMAIN tasks :
        /\ OnlyMinifierFailedFor(f)
        /\ g # f /\ IsScript(g) /\ tasks[g].state = "fulfilled"
        /\ disk[g] = Minify(original[g]) /\ disk[g] # original[g]
        /\ GetExt(h) = ".html" /\ tasks[h].state = "fulfilled" /\ disk[h] # original[h]

(***************************************************************************)
(* C11.  With minifyJS false no script of the build directory changes and  *)
(* no write goes to a script (the aggregator file, which the pass itself   *)
(* produces, is not counted), while the static imports of every script     *)
(* whose transform completed are in the Set.                               *)
(***************************************************************************)
\* The .js and .mjs files the build directory held before the pass, the
\* aggregator file of an earlier pass left out.
InputScripts == {f \in DOMAIN original : IsScript(f) /\ f # PreloadModuleFile}

MinifyOffLeavesScripts ==
    ~options.minifyJS =>
        /\ \A f \in InputScripts : f \in DOMAIN disk /\ disk[f] = original[f]
        /\ \A i \in 1..Len(writes) : writes[i].to \notin InputScripts
        /\ \A f \in DOMAIN tasks :
               (IsScript(f) /\ tasks[f].state = "fulfilled") =>
                   StaticTargets(f) \subseteq Range(modulesToPreload)

\* A pass without minification has returned after it scanned a script with
\* static imports: the Set holds them and the script is as it was.
MinifyOffLeavesScriptsWitness ==
    /\ ~options.minifyJS
    /\ pc = "done"
    /\ \E f \in DOMAIN tasks :
           /\ IsScript(f)
           /\ StaticTargets(f) # {}
           /\ StaticTargets(f) \subseteq Range(modulesToPreload)
           /\ disk[f] = original[f]

(***************************************************************************)
(* C12.  A file whose extension is not .js, .mjs or .html keeps its        *)
(* content, whatever the other files and the options, and its transform    *)
(* adds nothing to the Set.                                                *)
(***************************************************************************)
IsPassedThrough(file) == GetExt(file) \notin {".js", ".mjs", ".html"}

OtherFilesUntouched ==
    /\ \A f \in DOMAIN original :
           IsPassedThrough(f) => f \in DOMAIN disk /\ disk[f] = original[f]
    /\ \A i \in 1..Len(writes) :
           /\ writes[i].by # Emitter => ~IsPassedThrough(writes[i].by)
           /\ ~IsPassedThrough(writes[i].to)
    /\ Range(modulesToPreload) \subseteq
           UNION {StaticTargets(f) : f \in {g \in DOMAIN tasks : ~IsPassedThrough(g)}}

\* A pass with minification has returned after it scanned a stylesheet, a
\* file of an unknown extension and a script.
OtherFilesUntouchedWitness ==
    /\ pc = "done"
    /\ options.minifyJS
    /\ \E f, g, h \in DOMAIN tasks :
           /\ GetExt(f) = ".css" /\ disk[f] = original[f]
           /\ GetExt(g) = ".png" /\ disk[g] = original[g]
           /\ IsScript(h) /\ disk[h] # original[h]

(***************************************************************************)
(* C13.  After a successful pass every scanned .html file is its original  *)
(* content with one link element inserted before the closing tag of the    *)
(* head, whose href leads from the directory of the file to the aggregator *)
(* file; this is so whether or not a module was found.                     *)
(***************************************************************************)
\* doc is before with one modulepreload link to target put before the
\* closing tag of the head, and nothing else changed.
IsHinted(doc, before, dir, target) ==
    \E k \in 1..Len(before) : \E n \in 1..Len(doc) :
        /\ before[k] = "</head>"
        /\ Len(doc) = Len(before) + n + 2
        /\ SubSeq(doc, 1, k - 1) = SubSeq(before, 1, k - 1)
        /\ doc[k] = "<link rel=\"modulepreload\" href=\""
        /\ doc[k + n + 1] = "\" />"
        /\ SubSeq(doc, k + n + 2, Len(doc)) = SubSeq(before, k, Len(before))
        /\ doc[k + 1] \in {".", ".."}
        /\ PathResolve(dir, SubSeq(doc, k + 1, k + n)) = target

EveryPageGetsOneHint ==
    pc = "done" =>
        \A f \in DOMAIN tasks :
            GetExt(f) = ".html" =>
                IsHinted(disk[f], original[f], PathDirname(f), PreloadModuleFile)

\* A pass has returned after it scanned a page and a script with static
\* imports.
EveryPageGetsOneHintWitness ==
    /\ pc = "done"
    /\ modulesToPreload # <<>>
    /\ \E f \in DOMAIN tasks : GetExt(f) = ".html" /\ disk[f] # original[f]

\* The scan has been made.
Scanned == pc \notin {"start", "scan"}

\* What the scan returns when the patterns are merged, one by one, with the
\* pattern of the metadata directory.
ScanWith(patterns) ==
    Glob(original, BuildDirectory, <<MetaDir \o <<Sep, "*">>>> \o patterns)

(***************************************************************************)
(* C14.  A pattern given as a string leaves the scan what the sequence     *)
(* that holds this one pattern leaves it.                                  *)
(***************************************************************************)
StringExcludesLikeArray ==
    (Scanned /\ options.exclude.type = "string") =>
        Range(allFiles) = ScanWith(<<options.exclude.value>>)

(***************************************************************************)
(* C15.  Every path optimizeFile is called for is a regular file under the *)
(* build directory, outside the metadata directory at any depth, that no   *)
(* exclude pattern matches; the Set holds only what the static imports of  *)
(* such files resolve to.                                                  *)
(***************************************************************************)
\* file is in the metadata directory, at any depth.
InsideMetaDir(file) == PathJoin(BuildDirectory, MetaDir) \in Ancestors(file)

\* The exclude patterns the options give.
ExcludePatterns ==
    IF options.exclude.type = "string" THEN <<options.exclude.value>>
    ELSE options.exclude.value

\* The paths the scan may hand to optimizeFile.
Eligible(file) ==
    /\ file \in DOMAIN original
    /\ BuildDirectory \in Ancestors(file)
    /\ ~InsideMetaDir(file)
    /\ \A i \in 1..Len(ExcludePatterns) :
           ~GlobMatch(ExcludePatterns[i], PathRelative(BuildDirectory, file))

OnlyEligibleFilesTransformed ==
    /\ \A f \in DOMAIN tasks : tasks[f].state # "idle" => Eligible(f)
    /\ Range(modulesToPreload) \subseteq
           UNION {StaticTargets(f) : f \in {g \in DOMAIN tasks : Eligible(g)}}

(***************************************************************************)
(* C16.  With minifyJS, when the pass has succeeded every scanned script   *)
(* holds the minifier's output for the whole content it had before the     *)
(* pass, and the Set holds what the static imports of these contents       *)
(* resolve to.                                                             *)
(***************************************************************************)
\* The scripts optimizeFile was called for.
ScannedScripts == {f \in DOMAIN tasks \cap DOMAIN original : IsScript(f)}

MinifiedScriptsHoldMinifierOutput ==
    (pc = "done" /\ options.minifyJS) =>
        /\ \A f \in ScannedScripts : disk[f] = Minify(original[f])
        /\ Range(modulesToPreload) = UNION {StaticTargets(f) : f \in ScannedScripts}

MinifiedScriptsHoldMinifierOutputWitness ==
    /\ pc = "done" /\ options.minifyJS
    /\ \E f \in ScannedScripts :
           /\ disk[f] # original[f]
           /\ StaticTargets(f) # {}
           /\ StaticTargets(f) \subseteq Range(modulesToPreload)

(***************************************************************************)
(* C17.  Once a transform has failed, writeModulePreloadFile is not        *)
(* entered in this pass: the aggregator file is not written, it is absent  *)
(* if it was absent and holds what it held before the pass otherwise.      *)
(***************************************************************************)
FailedTransformSkipsEmitter ==
    rejected # <<>> =>
        /\ ~EmitterBegun
        /\ Positions("emit") = {}
        /\ sortedModules = <<>>
        /\ \A i \in 1..Len(writes) : writes[i].to # PreloadModuleFile
        /\ PreloadModuleFile \in DOMAIN disk <=> PreloadModuleFile \in DOMAIN original
        /\ PreloadModuleFile \in DOMAIN disk =>
               disk[PreloadModuleFile] = original[PreloadModuleFile]

\* A transform failed after another one had completed, the pass has
\* rejected, and the aggregator file of an earlier pass is still there.
FailedTransformSkipsEmitterWitness ==
    /\ TransformFailureReported
    /\ \E f \in DOMAIN tasks : tasks[f].state = "fulfilled"
    /\ PreloadModuleFile \in DOMAIN disk
    /\ disk[PreloadModuleFile] = StalePreload

(***************************************************************************)
(* C18.  A call of optimizeFile writes at most once and only its own file, *)
(* no file is written twice, the aggregator file is written at most once   *)
(* and by writeModulePreloadFile only, and a file that was not written     *)
(* holds what it held before the pass.                                     *)
(***************************************************************************)
WritesAreFileLocal ==
    /\ \A i \in 1..Len(writes) :
           IF writes[i].by = Emitter
           THEN writes[i].to = PreloadModuleFile
           ELSE /\ writes[i].by \in DOMAIN tasks
                /\ writes[i].to = writes[i].by
                /\ writes[i].to # PreloadModuleFile
    /\ \A i, j \in 1..Len(writes) : writes[i].to = writes[j].to => i = j
    /\ \A f \in DOMAIN disk :
           (\A i \in 1..Len(writes) : writes[i].to # f) =>
               f \in DOMAIN original /\ disk[f] = original[f]

\* Two transforms and the emitter have written.
WritesAreFileLocalWitness ==
    /\ pc = "done"
    /\ \E i, j, k \in 1..Len(writes) :
           /\ IsScript(writes[i].by) /\ GetExt(writes[j].by) = ".html"
           /\ writes[k].by = Emitter

(***************************************************************************)
(* C19.  When the pass has succeeded, the files hold what the directory    *)
(* before the pass and the options determine: the outcome is the same for  *)
(* every order in which the scan may list the files and in which the       *)
(* minifier may answer, hence for every order in which the Set was filled. *)
(***************************************************************************)
\* The files the scan returns for the directory and the options.
ScannedFiles ==
    {PathJoin(BuildDirectory, f) : f \in ScanWith(ExcludeSpread(options))}
        \cap DOMAIN original

\* The paths the Set holds when every scanned script has been read.
ScannedTargets == UNION {StaticTargets(f) : f \in {g \in ScannedFiles : IsScript(g)}}

\* The files after a pass that has filled the Set in the order of set.
Outcome(set) ==
    [f \in DOMAIN original \cup {PreloadModuleFile} |->
        IF f = PreloadModuleFile THEN PreloadCode(f, SortModules(set))
        ELSE IF f \notin ScannedFiles THEN original[f]
        ELSE IF IsScript(f) /\ options.minifyJS THEN Minify(original[f])
        ELSE IF GetExt(f) = ".html"
             THEN AppendHTMLToHead(original[f], PreloadScript(f, PreloadModuleFile))
        ELSE original[f]]

OutcomeIndependentOfOrder ==
    pc = "done" => \A set \in Orderings(ScannedTargets) : disk = Outcome(set)

==========================================================================
